---- MODULE Spec2Model ----
(***************************************************************************)
(* Model of the admin console of the storefront,                           *)
(* src/frontend/src/pages/Admin.js: the React component Admin, its state   *)
(* (useState cells), its event handlers and the asynchronous work they     *)
(* start (the image transform of optimizeImage and the calls to            *)
(* productService).                                                        *)
(*                                                                         *)
(* JavaScript is single-threaded: every handler runs to its next await     *)
(* atomically.  One action of the model is one such run: a handler from    *)
(* its start to its first await (or its return), or the continuation of a  *)
(* handler after the awaited promise has settled.                          *)
(***************************************************************************)
EXTENDS Integers, Sequences, FiniteSets

VARIABLES
    products,        \* useState([])    : the displayed product list (as a set)
    loading,         \* useState(true)
    error,           \* useState(null)  : "null" or the message
    openDialog,      \* useState(false)
    editingProduct,  \* useState(null)  : <<>> or <<product>>
    formData,        \* useState({...}) : the product form
    tasks,           \* the promises in flight: image transforms and network calls
    backend,         \* the product store behind productService
    nextId,          \* the next _id the backend hands out
    canvas,          \* the size optimizeImage last gave a canvas: <<>> or <<record>>
    userActions      \* the events the user has caused so far

vars == <<products, loading, error, openDialog, editingProduct, formData,
          tasks, backend, nextId, canvas, userActions>>

-----------------------------------------------------------------------------
(* Bounds of the model *)

\* Side lengths of the decoded images of the image specification: 1..MaxDim.
MaxDim == 1100
\* Promises in flight at one time.
MaxInFlight == 2
\* The _ids the backend hands out (one product is there from the start).
MaxProducts == 2
\* Events the user causes in one run: input changes, file selections, clicks.
MaxUserActions == 7
\* Length of the texts typed into a number field, in the form specification.
MaxTextLen == 2

-----------------------------------------------------------------------------
(* JavaScript values *)

\* null, for the cells that hold null or an object.
Null == <<>>
Some(x) == <<x>>

\* A form field holds a string (a sequence of characters) or, after
\* handleEdit, a number.  NaN is a number.
Str(s) == [t |-> "str", s |-> s, nan |-> FALSE, n |-> 0]
Num(n) == [t |-> "num", s |-> <<>>, nan |-> FALSE, n |-> n]
NaN == [t |-> "num", s |-> <<>>, nan |-> TRUE, n |-> 0]

Digits == {"0", "1", "2", "3", "4", "5", "6", "7", "8", "9"}

DigitValue(c) ==
    CASE c = "0" -> 0 [] c = "1" -> 1 [] c = "2" -> 2 [] c = "3" -> 3
      [] c = "4" -> 4 [] c = "5" -> 5 [] c = "6" -> 6 [] c = "7" -> 7
      [] c = "8" -> 8 [] c = "9" -> 9

\* The longest prefix of s made of digits, as a number; <<>> when s does not
\* start with a digit.
RECURSIVE DigitsPrefix(_, _, _)
DigitsPrefix(s, i, acc) ==
    IF i > Len(s) \/ s[i] \notin Digits
    THEN IF i = 1 THEN <<>> ELSE <<acc>>
    ELSE DigitsPrefix(s, i + 1, 10 * acc + DigitValue(s[i]))

\* parseFloat / parseInt(., 10) on the texts of the model (no "." and no
\* exponent in the alphabet, so the two agree): an optional sign, then the
\* longest run of digits; NaN when there is no digit.  A number argument is
\* first turned into its text, and parses back to itself.
ParseNumber(v) ==
    IF v.t = "num" THEN v
    ELSE LET neg  == Len(v.s) > 0 /\ v.s[1] = "-"
             plus == Len(v.s) > 0 /\ v.s[1] = "+"
             rest == IF neg \/ plus THEN Tail(v.s) ELSE v.s
             d    == DigitsPrefix(rest, 1, 0)
         IN  IF d = <<>> THEN NaN
             ELSE Num(IF neg THEN 0 - d[1] ELSE d[1])

parseFloat(v) == ParseNumber(v)
parseInt(v) == ParseNumber(v)

\* JavaScript truthiness of a field value: "", 0 and NaN are falsy.
Truthy(v) ==
    IF v.t = "str" THEN v.s # <<>> ELSE ~v.nan /\ v.n # 0

\* x || 0
OrZero(x) == IF Truthy(x) THEN x ELSE Num(0)

isNaN(x) == x.nan

\* <input type="number">: the value the element reports is the typed text
\* when it is a valid number, and "" otherwise.
IsNumberText(s) ==
    LET rest == IF Len(s) > 0 /\ s[1] = "-" THEN Tail(s) ELSE s
    IN  /\ rest # <<>>
        /\ \A i \in 1..Len(rest) : rest[i] \in Digits

NumberInputValue(raw) == IF IsNumberText(raw) THEN Str(raw) ELSE Str(<<>>)

-----------------------------------------------------------------------------
(* optimizeImage: the size given to the canvas *)

MAX_WIDTH == 800
MAX_HEIGHT == 800

RECURSIVE Pow2(_)
Pow2(n) == IF n = 0 THEN 1 ELSE 2 * Pow2(n - 1)

\* 2^e mod m
RECURSIVE Pow2Mod(_, _)
Pow2Mod(e, m) == IF e = 0 THEN 1 % m ELSE (2 * Pow2Mod(e - 1, m)) % m

\* The least k with x <= 2^k.
RECURSIVE CeilLog2From(_, _)
CeilLog2From(x, k) == IF x <= Pow2(k) THEN k ELSE CeilLog2From(x, k + 1)
CeilLog2(x) == CeilLog2From(x, 0)

\* The least k with b <= max * 2^k.
RECURSIVE QuotientShiftFrom(_, _, _)
QuotientShiftFrom(max, b, k) ==
    IF b <= max * Pow2(k) THEN k ELSE QuotientShiftFrom(max, b, k + 1)

(***************************************************************************)
(* a *= max / b, then the assignment of the result to canvas.width or      *)
(* canvas.height, for 1 <= a <= b and max < b.                             *)
(*                                                                         *)
(* The numbers are IEEE 754 doubles: q = max / b is rounded to 53          *)
(* significant bits, a * q is rounded again, and the canvas attribute (an  *)
(* unsigned long) keeps the integer part.  With e = 52 + k, where          *)
(* b <= max * 2^k < 2b, the quotient is q = (max * 2^e + s) / (b * 2^e),   *)
(* s being the signed rounding offset (round to nearest, ties to even), so *)
(* a * q = max*a/b + a*s / (b * 2^e).  When max*a/b is no integer the      *)
(* perturbation is far smaller than its distance 1/b to an integer, and    *)
(* the integer part is floor(max*a/b).  When max*a/b is an integer N, the  *)
(* product rounds to N unless s < 0 and the deficit a*|s| / (b * 2^e)      *)
(* exceeds half the spacing 2^(c - 53) of the doubles below N, where       *)
(* 2^(c-1) < N <= 2^c; then it rounds below N and the integer part is      *)
(* N - 1.                                                                  *)
(***************************************************************************)
ScaledSide(a, b, max) ==
    LET N   == (max * a) \div b
        rem == (max * a) % b
        k   == QuotientShiftFrom(max, b, 0)
        e   == 52 + k
        r   == ((max % b) * Pow2Mod(e, b)) % b
        m2  == ((max % (2 * b)) * Pow2Mod(e, 2 * b)) % (2 * b)
        mOdd == m2 >= b
        s   == IF r = 0 THEN 0
               ELSE IF 2 * r < b THEN 0 - r
               ELSE IF 2 * r > b THEN b - r
               ELSE IF mOdd THEN b - r ELSE 0 - r
        c   == CeilLog2(N)
    IN  IF rem # 0 THEN N
        ELSE IF s >= 0 THEN N
        ELSE IF 2 * a * (0 - s) > b * Pow2(c + k - 1) THEN N - 1 ELSE N

\* img.onload of optimizeImage, lines 77-97: the canvas size for a decoded
\* image of size width x height.
optimizeImage(width, height) ==
    IF width > height
    THEN IF width > MAX_WIDTH
         THEN [width |-> MAX_WIDTH, height |-> ScaledSide(height, width, MAX_WIDTH)]
         ELSE [width |-> width, height |-> height]
    ELSE IF height > MAX_HEIGHT
         THEN [width |-> ScaledSide(width, height, MAX_HEIGHT), height |-> MAX_HEIGHT]
         ELSE [width |-> width, height |-> height]

\* canvas.toDataURL('image/jpeg', 0.8).split(',')[1]: the base64 text of the
\* JPEG, which the model keeps as the size of the encoded picture.  A canvas
\* with no pixels gives the data URL "data:,", whose second part is "".
Base64Data(cv) ==
    IF cv.width = 0 \/ cv.height = 0 THEN <<>> ELSE <<cv.width, cv.height>>

-----------------------------------------------------------------------------
(* The inputs of the model *)

\* file.type, split at its "/": startsWith('image/') reads the first part.
FileTypes == {<<"image", "png">>, <<"text", "plain">>}

MaxFileBytes == 5 * 1024 * 1024

FileSizes == {MaxFileBytes, MaxFileBytes + 1}

\* What the file holds: a picture of size <<width, height>>.  Whether its
\* bytes can be read and decoded shows when the transform settles.
FileContents == {<<1600, 1200>>}

Files == [type : FileTypes, size : FileSizes, content : FileContents]

\* The texts a user types into the fields.
NameTexts == {"shirt"}
DescriptionTexts == {"cotton"}
CategoryValues == {"men", "women"}
PriceTexts == {<<"5">>, <<"0">>}
StockTexts == {<<"-", "5">>}

\* The product the backend holds when the page is mounted.
SeedProduct ==
    [_id |-> 1, name |-> "shirt", description |-> "cotton", price |-> Num(5),
     category |-> "men", stock |-> Num(3),
     image |-> [data |-> <<800, 600>>, contentType |-> "image/jpeg", alt |-> "shirt"]]

-----------------------------------------------------------------------------
(* The promises in flight *)

NetworkKinds == {"getAllProducts", "createProduct", "updateProduct", "deleteProduct"}

\* act names the user action (or the mount) the promise belongs to; reply is
\* Null until the backend has answered the request.
Task(kind, act, file, id, payload) ==
    [kind |-> kind, act |-> act, file |-> file, id |-> id, payload |-> payload,
     reply |-> Null]

\* A name for a user action that no promise in flight bears.
FreshAct ==
    CHOOSE i \in 0..MaxInFlight :
        /\ i \notin {t.act : t \in tasks}
        /\ \A j \in 0..(i - 1) : j \in {t.act : t \in tasks}

CanStart == Cardinality(tasks) < MaxInFlight

\* One more event of the user, within the bound of the model.  The Dialog is
\* modal: while it is open the events come from its form, and while it is
\* closed from the page behind it.
UserAction ==
    /\ userActions < MaxUserActions
    /\ userActions' = userActions + 1

\* fetchProducts up to its await (line 50).
FetchTask(act) == Task("getAllProducts", act, Null, 0, Null)

-----------------------------------------------------------------------------
(* The state after the first render: useState initial values, and the     *)
(* effect of line 60 has called fetchProducts.                             *)

InitialForm ==
    [name |-> "", description |-> "", price |-> Str(<<>>), category |-> "",
     stock |-> Str(<<>>), image |-> Null]

Init ==
    /\ products = {}
    /\ loading = TRUE
    /\ error = "null"
    /\ openDialog = FALSE
    /\ editingProduct = Null
    /\ formData = InitialForm
    /\ tasks = {FetchTask(0)}
    /\ backend = {SeedProduct}
    /\ nextId = 2
    /\ canvas = Null
    /\ userActions = 0

-----------------------------------------------------------------------------
(* The form *)

\* handleInputChange: setFormData(prev => ({...prev, [name]: value})).  The
\* fields are inside the Dialog, so they exist while it is open.
HandleInputChange ==
    /\ UserAction
    /\ openDialog
    /\ \/ \E v \in NameTexts : formData' = [formData EXCEPT !.name = v]
       \/ \E v \in DescriptionTexts : formData' = [formData EXCEPT !.description = v]
       \/ \E v \in PriceTexts : formData' = [formData EXCEPT !.price = NumberInputValue(v)]
       \/ \E v \in CategoryValues : formData' = [formData EXCEPT !.category = v]
       \/ \E v \in StockTexts : formData' = [formData EXCEPT !.stock = NumberInputValue(v)]
    /\ UNCHANGED <<products, loading, error, openDialog, editingProduct, tasks,
                   backend, nextId, canvas>>

StartsWithImage(type) == type[1] = "image"

\* ImageChangeError without the check of the file type.
ImageChangeError_NoTypeCheck(file) ==
    IF file.size > MaxFileBytes THEN "Image size should be less than 5MB"
    ELSE "null"

\* ImageChangeError with the size compared by >= in place of >.
ImageChangeError_SizeInclusive(file) ==
    IF ~StartsWithImage(file.type) THEN "Please select an image file"
    ELSE IF file.size >= MaxFileBytes THEN "Image size should be less than 5MB"
    ELSE "null"

\* The synchronous checks of handleImageChange: the message it sets, or
\* "null" when the file passes.
ImageChangeError(file) ==
    IF ~StartsWithImage(file.type) THEN "Please select an image file"
    ELSE IF file.size > MaxFileBytes THEN "Image size should be less than 5MB"
    ELSE "null"

\* handleImageChange up to its await (lines 115-132), for a selection that
\* holds a file (with none, line 117 skips everything).  The file input is
\* inside the Dialog.
HandleImageChange(file) ==
    /\ UserAction
    /\ openDialog
    /\ IF ImageChangeError(file) # "null"
       THEN /\ error' = ImageChangeError(file)
            /\ UNCHANGED tasks
       ELSE /\ CanStart
            /\ tasks' = tasks \cup {Task("optimizeImage", FreshAct, Some(file), 0, Null)}
            /\ UNCHANGED error
    /\ UNCHANGED <<products, loading, openDialog, editingProduct, formData,
                   backend, nextId, canvas>>

\* img.onload (lines 75-105) and the rest of handleImageChange (lines 133-143).
OptimizeResolve(t) ==
    /\ t \in tasks
    /\ UNCHANGED userActions
    /\ t.kind = "optimizeImage"
    /\ LET img == t.file[1].content
           cv  == optimizeImage(img[1], img[2])
       IN  /\ canvas' = Some([imgWidth |-> img[1], imgHeight |-> img[2],
                              width |-> cv.width, height |-> cv.height])
           /\ formData' = [formData EXCEPT !.image =
                  Some([data |-> Base64Data(cv), contentType |-> "image/jpeg",
                        alt |-> formData.name])]
    /\ error' = "null"
    /\ tasks' = tasks \ {t}
    /\ UNCHANGED <<products, loading, openDialog, editingProduct, backend, nextId>>

\* OptimizeReject that also drops the image the form held.
OptimizeReject_DropsImage(t) ==
    /\ t \in tasks
    /\ UNCHANGED userActions
    /\ t.kind = "optimizeImage"
    /\ error' = "Error processing the image"
    /\ formData' = [formData EXCEPT !.image = Null]
    /\ tasks' = tasks \ {t}
    /\ UNCHANGED <<products, loading, openDialog, editingProduct, backend, nextId, canvas>>

\* img.onerror or reader.onerror (lines 106, 110), and the catch of
\* handleImageChange (lines 144-147).
OptimizeReject(t) ==
    /\ t \in tasks
    /\ UNCHANGED userActions
    /\ t.kind = "optimizeImage"
    /\ error' = "Error processing the image"
    /\ tasks' = tasks \ {t}
    /\ UNCHANGED <<products, loading, openDialog, editingProduct, formData,
                   backend, nextId, canvas>>

-----------------------------------------------------------------------------
(* handleSubmit *)

\* dataToSend, lines 166-177 (read once formData.image is known to be set).
DataToSend(fd) ==
    [name |-> fd.name,
     description |-> fd.description,
     price |-> OrZero(parseFloat(fd.price)),
     category |-> fd.category,
     stock |-> OrZero(parseInt(fd.stock)),
     image |-> [data |-> fd.image[1].data,
                contentType |-> fd.image[1].contentType,
                alt |-> fd.name]]

\* ValidationError without the check of the price.
ValidationError_NoPriceCheck(fd) ==
    IF fd.name = "" \/ fd.description = "" \/ ~Truthy(fd.price) \/ fd.category = ""
    THEN "Please fill in all required fields"
    ELSE IF fd.image = Null \/ fd.image[1].data = <<>>
    THEN "Please select an image"
    ELSE IF isNaN(DataToSend(fd).stock) \/ DataToSend(fd).stock.n < 0
    THEN "Please enter a valid stock quantity"
    ELSE "null"

\* ValidationError without the check of the stock.
ValidationError_NoStockCheck(fd) ==
    IF fd.name = "" \/ fd.description = "" \/ ~Truthy(fd.price) \/ fd.category = ""
    THEN "Please fill in all required fields"
    ELSE IF fd.image = Null \/ fd.image[1].data = <<>>
    THEN "Please select an image"
    ELSE IF isNaN(DataToSend(fd).price) \/ DataToSend(fd).price.n <= 0
    THEN "Please enter a valid price"
    ELSE "null"

\* The checks of handleSubmit in their order (lines 155-188): the message it
\* sets, or "null" when the form passes.
ValidationError(fd) ==
    IF fd.name = "" \/ fd.description = "" \/ ~Truthy(fd.price) \/ fd.category = ""
    THEN "Please fill in all required fields"
    ELSE IF fd.image = Null \/ fd.image[1].data = <<>>
    THEN "Please select an image"
    ELSE IF isNaN(DataToSend(fd).price) \/ DataToSend(fd).price.n <= 0
    THEN "Please enter a valid price"
    ELSE IF isNaN(DataToSend(fd).stock) \/ DataToSend(fd).stock.n < 0
    THEN "Please enter a valid stock quantity"
    ELSE "null"

\* SubmitCalls of a handleSubmit that does not await the save call before it
\* calls fetchProducts.
SubmitCalls_NoAwait(act, fd, editing) ==
    {FetchTask(act)} \cup
    (IF editing # Null
     THEN {Task("updateProduct", act, Null, editing[1]._id, Some(DataToSend(fd)))}
     ELSE {Task("createProduct", act, Null, 0, Some(DataToSend(fd)))})

\* SubmitCalls of a handleSubmit that creates a product whether or not one is
\* being edited.
SubmitCalls_AlwaysCreate(act, fd, editing) ==
    {Task("createProduct", act, Null, 0, Some(DataToSend(fd)))}

\* The calls handleSubmit has issued when it reaches its await (lines 190-194).
SubmitCalls(act, fd, editing) ==
    IF editing # Null
    THEN {Task("updateProduct", act, Null, editing[1]._id, Some(DataToSend(fd)))}
    ELSE {Task("createProduct", act, Null, 0, Some(DataToSend(fd)))}

\* handleSubmit up to its await (lines 151-194).  The form is inside the
\* Dialog.
HandleSubmit ==
    /\ UserAction
    /\ openDialog
    /\ IF ValidationError(formData) # "null"
       THEN /\ error' = ValidationError(formData)
            /\ UNCHANGED tasks
       ELSE /\ CanStart
            /\ tasks' = tasks \cup SubmitCalls(FreshAct, formData, editingProduct)
            /\ UNCHANGED error
    /\ UNCHANGED <<products, loading, openDialog, editingProduct, formData,
                   backend, nextId, canvas>>

\* The form after a successful save (lines 196-203).
FormAfterSave ==
    [name |-> "", description |-> "", price |-> Str(<<>>), category |-> "men",
     stock |-> Str(<<"0">>), image |-> Null]

\* The rest of handleSubmit once the save call has settled (lines 196-211).
SaveSettled(t) ==
    /\ t \in tasks
    /\ UNCHANGED userActions
    /\ t.kind \in {"createProduct", "updateProduct"}
    /\ t.reply # Null
    /\ IF t.reply[1].ok
       THEN /\ formData' = FormAfterSave
            /\ error' = "null"
            /\ editingProduct' = Null
            /\ openDialog' = FALSE
            /\ tasks' = (tasks \ {t}) \cup {FetchTask(t.act)}
       ELSE /\ error' = "Failed to save product"
            /\ tasks' = tasks \ {t}
            /\ UNCHANGED <<formData, editingProduct, openDialog>>
    /\ UNCHANGED <<products, loading, backend, nextId, canvas>>

-----------------------------------------------------------------------------
(* The product list *)

\* The calls handleDelete has issued when it reaches its await (line 217).
DeleteCalls(act, productId) == {Task("deleteProduct", act, Null, productId, Null)}

\* HandleDelete that does not ask: it calls deleteProduct whatever the answer
\* of window.confirm.
HandleDelete_NoConfirm(productId, confirmed) ==
    /\ UserAction
    /\ ~openDialog
    /\ productId \in {p._id : p \in products}
    /\ CanStart
    /\ tasks' = tasks \cup DeleteCalls(FreshAct, productId)
    /\ UNCHANGED <<products, loading, error, openDialog, editingProduct, formData,
                   backend, nextId, canvas>>

\* handleDelete up to its await (lines 214-217); confirmed is the answer of
\* window.confirm.  The cards are behind the modal Dialog while it is open.
HandleDelete(productId, confirmed) ==
    /\ UserAction
    /\ ~openDialog
    /\ productId \in {p._id : p \in products}
    /\ IF confirmed
       THEN /\ CanStart
            /\ tasks' = tasks \cup DeleteCalls(FreshAct, productId)
       ELSE UNCHANGED tasks
    /\ UNCHANGED <<products, loading, error, openDialog, editingProduct, formData,
                   backend, nextId, canvas>>

\* The rest of handleDelete once the delete call has settled (lines 218-222).
DeleteSettled(t) ==
    /\ t \in tasks
    /\ UNCHANGED userActions
    /\ t.kind = "deleteProduct"
    /\ t.reply # Null
    /\ IF t.reply[1].ok
       THEN /\ tasks' = (tasks \ {t}) \cup {FetchTask(t.act)}
            /\ UNCHANGED error
       ELSE /\ error' = "Failed to delete product"
            /\ tasks' = tasks \ {t}
    /\ UNCHANGED <<products, loading, openDialog, editingProduct, formData,
                   backend, nextId, canvas>>

\* The rest of fetchProducts once getAllProducts has settled (lines 51-57).
FetchSettled(t) ==
    /\ t \in tasks
    /\ UNCHANGED userActions
    /\ t.kind = "getAllProducts"
    /\ t.reply # Null
    /\ IF t.reply[1].ok
       THEN /\ products' = t.reply[1].data
            /\ UNCHANGED error
       ELSE /\ error' = "Failed to load products"
            /\ UNCHANGED products
    /\ loading' = FALSE
    /\ tasks' = tasks \ {t}
    /\ UNCHANGED <<openDialog, editingProduct, formData, backend, nextId, canvas>>

\* handleEdit (lines 226-237).
HandleEdit(product) ==
    /\ UserAction
    /\ ~openDialog
    /\ product \in products
    /\ editingProduct' = Some(product)
    /\ formData' = [name |-> product.name, description |-> product.description,
                    price |-> product.price, category |-> product.category,
                    stock |-> product.stock, image |-> Null]
    /\ openDialog' = TRUE
    /\ UNCHANGED <<products, loading, error, tasks, backend, nextId, canvas>>

\* The "+ Add New Product" button (line 262).
OpenAddDialog ==
    /\ UserAction
    /\ ~openDialog
    /\ openDialog' = TRUE
    /\ UNCHANGED <<products, loading, error, editingProduct, formData, tasks,
                   backend, nextId, canvas>>

\* What onClose and Cancel both do.
CloseDialog ==
    /\ UserAction
    /\ openDialog
    /\ openDialog' = FALSE
    /\ editingProduct' = Null
    /\ formData' = InitialForm
    /\ UNCHANGED <<products, loading, error, tasks, backend, nextId, canvas>>

\* The Dialog's onClose (lines 379-390).
DialogOnClose == CloseDialog

\* The Cancel button (lines 461-472).
CancelClick == CloseDialog

-----------------------------------------------------------------------------
(* The backend behind productService: list-all, create, update-by-id and   *)
(* delete-by-id on a product store, each of which may also fail.           *)

Reply(ok, data) == Some([ok |-> ok, data |-> data])

Answered(t, ok, data) == (tasks \ {t}) \cup {[t EXCEPT !.reply = Reply(ok, data)]}

Stored(id, payload) ==
    [_id |-> id, name |-> payload.name, description |-> payload.description,
     price |-> payload.price, category |-> payload.category,
     stock |-> payload.stock, image |-> payload.image]

BackendServe(t) ==
    /\ t \in tasks
    /\ UNCHANGED userActions
    /\ t.kind \in NetworkKinds
    /\ t.reply = Null
    /\ CASE t.kind = "getAllProducts" ->
              /\ tasks' = Answered(t, TRUE, backend)
              /\ UNCHANGED <<backend, nextId>>
         [] t.kind = "createProduct" ->
              /\ nextId <= MaxProducts
              /\ backend' = backend \cup {Stored(nextId, t.payload[1])}
              /\ nextId' = nextId + 1
              /\ tasks' = Answered(t, TRUE, {})
         [] t.kind = "updateProduct" ->
              /\ t.id \in {p._id : p \in backend}
              /\ backend' = {p \in backend : p._id # t.id}
                                \cup {Stored(t.id, t.payload[1])}
              /\ tasks' = Answered(t, TRUE, {})
              /\ UNCHANGED nextId
         [] t.kind = "deleteProduct" ->
              /\ t.id \in {p._id : p \in backend}
              /\ backend' = {p \in backend : p._id # t.id}
              /\ tasks' = Answered(t, TRUE, {})
              /\ UNCHANGED nextId
    /\ UNCHANGED <<products, loading, error, openDialog, editingProduct, formData,
                   canvas>>

BackendFail(t) ==
    /\ t \in tasks
    /\ UNCHANGED userActions
    /\ t.kind \in NetworkKinds
    /\ t.reply = Null
    /\ tasks' = Answered(t, FALSE, {})
    /\ UNCHANGED <<products, loading, error, openDialog, editingProduct, formData,
                   backend, nextId, canvas>>

-----------------------------------------------------------------------------
(* The specification of the page *)

Next ==
    \/ HandleInputChange
    \/ \E file \in Files : HandleImageChange(file)
    \/ \E t \in tasks : OptimizeResolve(t)
    \/ \E t \in tasks : OptimizeReject(t)
    \/ HandleSubmit
    \/ \E t \in tasks : SaveSettled(t)
    \/ \E p \in products, confirmed \in BOOLEAN : HandleDelete(p._id, confirmed)
    \/ \E t \in tasks : DeleteSettled(t)
    \/ \E t \in tasks : FetchSettled(t)
    \/ \E p \in products : HandleEdit(p)
    \/ OpenAddDialog
    \/ DialogOnClose
    \/ CancelClick
    \/ \E t \in tasks : BackendServe(t)
    \/ \E t \in tasks : BackendFail(t)

Spec == Init /\ [][Next]_vars

-----------------------------------------------------------------------------
(* The specification of the page when every list-all call succeeds: the    *)
(* page as above, with a backend that may fail a create, an update or a    *)
(* delete, and answers every getAllProducts.                               *)

NextListed ==
    \/ HandleInputChange
    \/ \E file \in Files : HandleImageChange(file)
    \/ \E t \in tasks : OptimizeResolve(t)
    \/ \E t \in tasks : OptimizeReject(t)
    \/ HandleSubmit
    \/ \E t \in tasks : SaveSettled(t)
    \/ \E p \in products, confirmed \in BOOLEAN : HandleDelete(p._id, confirmed)
    \/ \E t \in tasks : DeleteSettled(t)
    \/ \E t \in tasks : FetchSettled(t)
    \/ \E p \in products : HandleEdit(p)
    \/ OpenAddDialog
    \/ DialogOnClose
    \/ CancelClick
    \/ \E t \in tasks : BackendServe(t)
    \/ \E t \in tasks : t.kind # "getAllProducts" /\ BackendFail(t)

SpecListed == Init /\ [][NextListed]_vars

-----------------------------------------------------------------------------
(* The specification of the image transform: a picture of any size up to   *)
(* MaxDim, or of one of the sizes of the examples, has been selected in    *)
(* the open dialog, and optimizeImage runs on it.                          *)

ExampleSizes == {<<1600, 1200>>, <<1200, 1600>>}

ImageSizes == ((1..MaxDim) \X (1..MaxDim)) \cup ExampleSizes

InitImage ==
    /\ products = {SeedProduct}
    /\ loading = FALSE
    /\ error = "null"
    /\ openDialog = TRUE
    /\ editingProduct = Null
    /\ formData = InitialForm
    /\ \E size \in ImageSizes :
          tasks = {Task("optimizeImage", 0,
                        Some([type |-> <<"image", "png">>, size |-> MaxFileBytes,
                              content |-> size]), 0, Null)}
    /\ backend = {SeedProduct}
    /\ nextId = 2
    /\ canvas = Null
    /\ userActions = 2

NextImage == \E t \in tasks : OptimizeResolve(t)

SpecImage == InitImage /\ [][NextImage]_vars

-----------------------------------------------------------------------------
(* The specification of the form: the dialog is open on a form holding any *)
(* values the fields can hold, for a new product or for a product of the   *)
(* list, and the form is submitted.                                        *)

FieldAlphabet == {"-", "0", "5", "x"}

RECURSIVE Texts(_)
Texts(n) ==
    IF n = 0 THEN {<<>>}
    ELSE Texts(n - 1) \cup {Append(s, c) : s \in Texts(n - 1), c \in FieldAlphabet}

\* What a number field reports for the typed texts.
TypedValues == {NumberInputValue(raw) : raw \in Texts(MaxTextLen)}

\* The numbers a product of the backend may hold.
StoredNumbers == {Num(0 - 3), Num(0), Num(5)}

EditableProducts ==
    {[SeedProduct EXCEPT !.price = a, !.stock = b] : a \in StoredNumbers, b \in StoredNumbers}

FormImages ==
    {Null} \cup {Some([data |-> d, contentType |-> "image/jpeg", alt |-> a]) :
                    d \in {<<>>, <<800, 600>>}, a \in {"", "shirt"}}

\* The forms the dialog can hold while editing (<<product>>) or adding (<<>>).
Forms(editing) ==
    [name : {"", "shirt"},
     description : {"", "cotton"},
     price : TypedValues \cup {e.price : e \in {editing[i] : i \in 1..Len(editing)}},
     category : {"", "men", "women"},
     stock : TypedValues \cup {e.stock : e \in {editing[i] : i \in 1..Len(editing)}},
     image : FormImages]

InitForm ==
    /\ products = {SeedProduct}
    /\ loading = FALSE
    /\ error = "null"
    /\ openDialog = TRUE
    /\ editingProduct \in {Null} \cup {Some(e) : e \in EditableProducts}
    /\ formData \in Forms(editingProduct)
    /\ tasks = {}
    /\ backend = {SeedProduct}
    /\ nextId = 2
    /\ canvas = Null
    /\ userActions = 0

NextForm == HandleSubmit

SpecForm == InitForm /\ [][NextForm]_vars

\* The form specification leaves out no form the page can reach.
FormsCoverReachable == formData \in Forms(editingProduct)

-----------------------------------------------------------------------------
(* The properties of the specification document, C1 to C13 *)

Abs(x) == IF x < 0 THEN 0 - x ELSE x
Min(x, y) == IF x <= y THEN x ELSE y

SaveKinds == {"createProduct", "updateProduct"}

\* The text of a number field that is no number, and the value of one that is.
NonNumeric(v) == v.t = "str" /\ ~IsNumberText(v.s)
NumericValue(v) == ParseNumber(v).n

\* C1: for every decoded size width x height (both >= 1), the size given to
\* the canvas has no side above 800, and its scaled side (the one that was
\* not the longer side of the picture) differs from the exact proportional
\* value by less than 1.
C1_BoundedAndProportional ==
    canvas # Null =>
        LET c == canvas[1]
        IN  /\ c.width <= 800
            /\ c.height <= 800
            /\ IF c.imgWidth >= c.imgHeight
               THEN Abs(c.height * c.imgWidth - c.imgHeight * c.width) < c.imgWidth
               ELSE Abs(c.width * c.imgHeight - c.imgWidth * c.height) < c.imgHeight

\* The reference rule of the specification, the scaled side taken to its
\* integer part as a canvas does.
ReferenceSize(width, height) ==
    IF width >= height
    THEN [width |-> Min(width, 800),
          height |-> (height * Min(width, 800)) \div width]
    ELSE [width |-> (width * Min(height, 800)) \div height,
          height |-> Min(height, 800)]

\* C2: for every decoded size, optimizeImage computes the target size of the
\* reference rule: the longer side becomes min(side, 800) and the other side
\* is scaled by the same factor (1600x1200 gives 800x600, 1200x1600 gives
\* 600x800, a picture with both sides <= 800 keeps its size).
C2_SameAsReference ==
    canvas # Null =>
        LET c == canvas[1]
        IN  [width |-> c.width, height |-> c.height]
                = ReferenceSize(c.imgWidth, c.imgHeight)

\* C3: a submit with stock < 0 or with a non-numeric stock is rejected,
\* whatever the other fields hold: an error message is set and no create or
\* update call is issued.
C3_BadStockRejected ==
    [][(HandleSubmit /\ (NonNumeric(formData.stock) \/ NumericValue(formData.stock) < 0))
          => /\ error' # "null"
             /\ \A t \in tasks' \ tasks : t.kind \notin SaveKinds]_vars

\* C4: a submit with price <= 0 or with a non-numeric price is rejected,
\* whatever the other fields hold: an error message is set and no create or
\* update call is issued.
C4_BadPriceRejected ==
    [][(HandleSubmit /\ (NonNumeric(formData.price) \/ NumericValue(formData.price) <= 0))
          => /\ error' # "null"
             /\ \A t \in tasks' \ tasks : t.kind \notin SaveKinds]_vars

\* A submit of a form that lacked nothing but a valid price has been rejected.
C4_Witness ==
    /\ error = "Please enter a valid price"
    /\ formData.name # "" /\ formData.description # "" /\ formData.category # ""
    /\ formData.image # Null
    /\ NumericValue(formData.price) <= 0
    /\ tasks = {}

\* C5: for every selected file whose type does not start with "image/",
\* handleImageChange sets an error message, starts no optimizeImage and leaves
\* formData as it was.
C5_NonImageRejected ==
    [][\A file \in Files :
          (file.type[1] # "image" /\ HandleImageChange(file))
             => /\ error' # "null"
                /\ tasks' = tasks
                /\ formData' = formData]_vars

\* A file that is no image has been refused while the form held an image.
C5_Witness ==
    /\ error = "Please select an image file"
    /\ formData.image # Null

\* C6: for every selected image file of more than 5,242,880 bytes,
\* handleImageChange sets an error message and starts no optimizeImage; an
\* image file of exactly 5,242,880 bytes starts its optimizeImage.
C6_OversizeRejected ==
    [][\A file \in Files :
          (file.type[1] = "image" /\ HandleImageChange(file))
             => /\ file.size > 5242880 =>
                     /\ error' # "null"
                     /\ tasks' = tasks
                /\ file.size = 5242880 =>
                     \E t \in tasks' \ tasks :
                         t.kind = "optimizeImage" /\ t.file = Some(file)]_vars

\* An oversized image has been refused while the transform of an image of
\* exactly 5,242,880 bytes is in flight.
C6_Witness ==
    /\ error = "Image size should be less than 5MB"
    /\ \E t \in tasks : t.kind = "optimizeImage" /\ t.file[1].size = 5242880

\* C7: every create or update call issued by handleSubmit carries a payload
\* with price > 0, stock >= 0, a non-empty name, description and category,
\* and an image whose data is non-empty.
C7_PayloadValid ==
    \A t \in tasks :
        t.kind \in SaveKinds =>
            LET d == t.payload[1]
            IN  /\ ~d.price.nan /\ d.price.n > 0
                /\ ~d.stock.nan /\ d.stock.n >= 0
                /\ d.name # "" /\ d.description # "" /\ d.category # ""
                /\ d.image.data # <<>>

\* A create call has been issued and waits for the backend.
C7_Witness ==
    \E t \in tasks : t.kind = "createProduct" /\ t.reply = Null

\* The steps in which an operation fails: a file refused by its type or its
\* size, a transform that rejects, a submit that returns without a save call,
\* a save or delete call that comes back failed.
FailingStep ==
    \/ \E file \in Files :
          /\ file.type[1] # "image" \/ file.size > 5242880
          /\ HandleImageChange(file)
    \/ \E t \in tasks : OptimizeReject(t)
    \/ HandleSubmit /\ tasks' = tasks
    \/ \E t \in tasks :
          /\ t.kind \in SaveKinds /\ t.reply # Null /\ ~t.reply[1].ok
          /\ SaveSettled(t)
    \/ \E t \in tasks :
          /\ t.kind = "deleteProduct" /\ t.reply # Null /\ ~t.reply[1].ok
          /\ DeleteSettled(t)

C9_ImageDiscarded == ~openDialog => formData.image = Null

\* C10: at most one image transform or network call is in flight among those
\* one user action has started: the list-all call of handleSubmit and of
\* handleDelete is issued once their save or delete call has completed.
C10_OneInFlightPerAction ==
    \A t1, t2 \in tasks : t1.act = t2.act => t1 = t2

\* The list-all call that follows a successful save is in flight, next to
\* the promise of another user action.
C10_Witness ==
    /\ formData = FormAfterSave
    /\ ~openDialog
    /\ ~loading
    /\ \E t \in tasks : t.kind = "getAllProducts" /\ t.reply = Null
    /\ Cardinality(tasks) = 2

\* C11: a submit that passes validation issues exactly one save call, and
\* nothing else: updateProduct with the _id of the product being edited when
\* editingProduct is set at submit time, otherwise createProduct.  When that
\* call comes back, the form is reset, editingProduct cleared, the dialog
\* closed and a list-all call issued if the call succeeded, and none of
\* these happens if it failed.
C11_OneSaveThenReset ==
    [][/\ (HandleSubmit /\ ValidationError(formData) = "null")
           => /\ tasks \subseteq tasks'
              /\ \E t \in tasks' :
                    /\ tasks' \ tasks = {t}
                    /\ t.reply = Null
                    /\ IF editingProduct # Null
                       THEN t.kind = "updateProduct" /\ t.id = editingProduct[1]._id
                       ELSE t.kind = "createProduct"
              /\ UNCHANGED <<formData, editingProduct, openDialog>>
       /\ \A t \in tasks :
            (t.kind \in SaveKinds /\ SaveSettled(t))
               => IF t.reply[1].ok
                  THEN /\ formData'.name = "" /\ formData'.description = ""
                       /\ formData'.price = Str(<<>>) /\ formData'.image = Null
                       /\ editingProduct' = Null
                       /\ openDialog' = FALSE
                       /\ \E f \in tasks' :
                             /\ tasks' \ tasks = {f}
                             /\ f.kind = "getAllProducts" /\ f.reply = Null
                  ELSE /\ UNCHANGED <<formData, editingProduct, openDialog>>
                       /\ tasks' \subseteq tasks]_vars

\* An update call has succeeded (the backend has created nothing): the form
\* is reset, the dialog closed, and the list-all call of the submit is in
\* flight.
C11_Witness ==
    /\ formData = FormAfterSave
    /\ editingProduct = Null
    /\ ~openDialog
    /\ nextId = 2
    /\ \E p \in backend : p._id = 1 /\ p.category = "women"
    /\ \E t \in tasks : t.kind = "getAllProducts" /\ t.reply = Null

\* C12: a deleteProduct call for a product id is issued only by a
\* handleDelete of that id whose confirmation the user has given; a
\* handleDelete the user declines issues no call and changes no state of the
\* page or of the backend; when the delete call comes back, a list-all call
\* is issued if it succeeded and none if it failed.
C12_DeleteOnlyConfirmed ==
    [][/\ \A t \in tasks' \ tasks :
            (t.kind = "deleteProduct" /\ t.reply = Null)
               => /\ HandleDelete(t.id, TRUE)
                  /\ tasks' \ tasks = {t}
       /\ \A p \in products :
            HandleDelete(p._id, FALSE)
               => /\ tasks' = tasks
                  /\ UNCHANGED <<products, loading, error, openDialog,
                                 editingProduct, formData, backend, nextId>>
       /\ \A t \in tasks :
            (t.kind = "deleteProduct" /\ DeleteSettled(t))
               => IF t.reply[1].ok
                  THEN \E f \in tasks' :
                          /\ tasks' \ tasks = {f}
                          /\ f.kind = "getAllProducts" /\ f.reply = Null
                  ELSE tasks' \subseteq tasks]_vars

\* A confirmed delete of the one product has succeeded: the backend is
\* empty, the page still shows the product, and the list-all call that
\* follows the delete is in flight.
C12_Witness ==
    /\ backend = {}
    /\ products = {SeedProduct}
    /\ \A t \in tasks : t.kind = "getAllProducts" /\ t.reply = Null
    /\ tasks # {}

\* C13: with the page as the only writer of the backend and every list-all
\* call succeeding, once no call is in flight the displayed products are the
\* products of the backend, whatever the interleaving of the submit and
\* delete actions and the order in which the responses of concurrent
\* list-all calls arrive.
C13_DisplayedIsBackend == tasks = {} => products = backend

====
